---- MODULE Spec2Model ----
(***************************************************************************)
(* VeriVote: the VotingContract state machine of                           *)
(* smart_contracts/voting/contract.py.                                     *)
(*                                                                         *)
(* Every attribute assigned in VotingContract.__init__ with a plain        *)
(* `self.x = UInt64(..)` is one storage slot of the application: this      *)
(* holds for has_voted and vote_timestamp (contract.py:47-48) exactly as   *)
(* for the tallies, and the tests read them as `voting_contract.has_voted`.*)
(* The model therefore keeps ONE has_voted and ONE vote_timestamp, read    *)
(* and written by whichever account is the sender of the call.             *)
(*                                                                         *)
(* A call whose assert fails is rejected by the ledger with no storage     *)
(* change; the variable `last` records the most recent call, its sender    *)
(* and its outcome (accepted, or the message of the assert that failed).   *)
(* `returned` is the value that call returned.                             *)
(* `voted` is a history variable: the accounts whose cast_vote was         *)
(* accepted since the last accepted create_election.  `opted_in` and       *)
(* `voted_since_opt_in` are history variables too; they are recorded only  *)
(* under SpecHist and stay empty under Spec and SpecLive.                  *)
(***************************************************************************)
EXTENDS Integers, Sequences, FiniteSets

\* ------------------------------------------------------------------ bounds
\* Timestamps (ledger time and the time arguments) range over 0..MaxTime.
MaxTime == 3
\* An accepted cast_vote is explored while total_voters < MaxVotes.
MaxVotes == 2

\* ------------------------------------------------------------ environment
\* Global.creator_address and the other senders.
creator_address == "creator"
Accounts == {"creator", "v1", "v2"}

Times == 0..MaxTime
\* Global.latest_timestamp when the application is created: a UNIX time, so
\* later than 0, the value election_start and election_end are created with.
FirstTimestamp == 1
\* candidate_id arguments: the two candidates and two invalid ids.
CandidateIds == 0..3

\* An n-byte value, every byte b.
Bytes(n, b) == [i \in 1..n |-> b]
\* ai_hash arguments: empty, b"short"-sized, and two SHA256-sized values.
Hashes == {Bytes(0, 0), Bytes(5, 97), Bytes(32, 0), Bytes(32, 97)}

\* ------------------------------------------------------------------ state
VARIABLES
    candidate_a_votes,  \* contract.py:38
    candidate_b_votes,  \* contract.py:39
    election_start,     \* contract.py:40
    election_end,       \* contract.py:41
    total_voters,       \* contract.py:42
    ai_report_hash,     \* contract.py:43
    election_closed,    \* contract.py:44
    has_voted,          \* contract.py:47
    vote_timestamp,     \* contract.py:48
    now,                \* Global.latest_timestamp
    last,               \* the most recent call and its outcome
    returned,           \* what the most recent call returned
    voted,              \* history: accepted voters of the current election
    opted_in,           \* history: the accounts that have called opt_in_voter
    voted_since_opt_in  \* history: accepted voters with no opt_in_voter of
                        \*          their own after their vote

storage == <<candidate_a_votes, candidate_b_votes, election_start, election_end,
             total_voters, ai_report_hash, election_closed, has_voted,
             vote_timestamp>>
vars == <<candidate_a_votes, candidate_b_votes, election_start, election_end,
          total_voters, ai_report_hash, election_closed, has_voted,
          vote_timestamp, now, last, returned, voted, opted_in,
          voted_since_opt_in>>
\* The history of opt-ins, which no method reads or writes.
opt_history == <<opted_in, voted_since_opt_in>>

\* The value every passed assert chain yields.
OK == "ok"

\* The record of a call: the method, Txn.sender and the outcome (OK, or the
\* message of the assert that failed).
Call(op, sender, result) ==
    [op |-> op, sender |-> sender, ok |-> (result = OK), reason |-> result]

NoCall == Call("none", "none", "none")

\* What a rejected call returns, and what `returned` holds when no call was made.
Nothing == <<>>

TypeOK ==
    /\ candidate_a_votes \in 0..MaxVotes
    /\ candidate_b_votes \in 0..MaxVotes
    /\ total_voters \in 0..MaxVotes
    /\ election_start \in Times
    /\ election_end \in Times
    /\ ai_report_hash \in Hashes
    /\ election_closed \in {0, 1}
    /\ has_voted \in {0, 1}
    /\ vote_timestamp \in Times
    /\ now \in Times
    /\ voted \subseteq Accounts
    /\ opted_in \subseteq Accounts
    /\ voted_since_opt_in \subseteq Accounts
    /\ last.op \in {"none", "create_election", "opt_in_voter", "cast_vote",
                    "close_election", "get_results", "get_voter_status"}

\* VotingContract.__init__, on a ledger whose clock reads FirstTimestamp.
Init ==
    /\ candidate_a_votes = 0
    /\ candidate_b_votes = 0
    /\ election_start = 0
    /\ election_end = 0
    /\ total_voters = 0
    /\ ai_report_hash = <<>>
    /\ election_closed = 0
    /\ has_voted = 0
    /\ vote_timestamp = 0
    /\ now = FirstTimestamp
    /\ last = NoCall
    /\ returned = Nothing
    /\ voted = {}
    /\ opted_in = {}
    /\ voted_since_opt_in = {}

\* ------------------------------------------------------- create_election
\* Mutant: the ordering assert written with <=, so start = end passes.
create_election_asserts_le(sender, start, end) ==
    IF sender # creator_address THEN "Only creator can create election"
    ELSE IF ~(start <= end) THEN "Start time must be before end time"
    ELSE IF ~(end > now) THEN "End time must be in the future"
    ELSE OK

\* Mutant: the "End time must be in the future" assert is missing.
create_election_asserts_no_future(sender, start, end) ==
    IF sender # creator_address THEN "Only creator can create election"
    ELSE IF ~(start < end) THEN "Start time must be before end time"
    ELSE OK

\* The asserts of create_election, in order: the first that fails, else OK.
create_election_asserts(sender, start, end) ==
    IF sender # creator_address THEN "Only creator can create election"
    ELSE IF ~(start < end) THEN "Start time must be before end time"
    ELSE IF ~(end > now) THEN "End time must be in the future"
    ELSE OK

\* Mutant: the previous AI report hash is not cleared.
create_election_writes_keeps_hash(start, end) ==
    [candidate_a_votes |-> 0, candidate_b_votes |-> 0, total_voters |-> 0,
     election_closed |-> 0, election_start |-> start, election_end |-> end,
     ai_report_hash |-> ai_report_hash]

\* The storage create_election writes once its asserts have passed.
create_election_writes(start, end) ==
    [candidate_a_votes |-> 0, candidate_b_votes |-> 0, total_voters |-> 0,
     election_closed |-> 0, election_start |-> start, election_end |-> end,
     ai_report_hash |-> <<>>]

create_election(sender, start_time, end_time) ==
    LET r == create_election_asserts(sender, start_time, end_time)
        w == create_election_writes(start_time, end_time)
    IN /\ last' = Call("create_election", sender, r)
       /\ returned' = IF r = OK THEN "Election created successfully" ELSE Nothing
       /\ IF r = OK
          THEN /\ candidate_a_votes' = w.candidate_a_votes
               /\ candidate_b_votes' = w.candidate_b_votes
               /\ total_voters' = w.total_voters
               /\ election_closed' = w.election_closed
               /\ election_start' = w.election_start
               /\ election_end' = w.election_end
               /\ ai_report_hash' = w.ai_report_hash
               /\ voted' = {}
               /\ UNCHANGED <<has_voted, vote_timestamp, now>>
          ELSE UNCHANGED <<storage, now, voted>>

\* -------------------------------------------------------------- cast_vote
\* Mutant: the "Election has ended" assert is missing.
cast_vote_asserts_no_end(sender, candidate) ==
    IF ~(now >= election_start) THEN "Election has not started yet"
    ELSE IF ~(election_closed = 0) THEN "Election is closed"
    ELSE IF ~(has_voted = 0) THEN "You have already voted"
    ELSE IF ~(candidate = 1 \/ candidate = 2)
        THEN "Invalid candidate ID (must be 1 or 2)"
    ELSE OK

\* Mutant: the "Election is closed" assert moved in front of the window.
cast_vote_asserts_closed_first(sender, candidate) ==
    IF ~(election_closed = 0) THEN "Election is closed"
    ELSE IF ~(now >= election_start) THEN "Election has not started yet"
    ELSE IF ~(now <= election_end) THEN "Election has ended"
    ELSE IF ~(has_voted = 0) THEN "You have already voted"
    ELSE IF ~(candidate = 1 \/ candidate = 2)
        THEN "Invalid candidate ID (must be 1 or 2)"
    ELSE OK

\* The asserts of cast_vote, in order: the first that fails, else OK.
cast_vote_asserts(sender, candidate) ==
    IF ~(now >= election_start) THEN "Election has not started yet"
    ELSE IF ~(now <= election_end) THEN "Election has ended"
    ELSE IF ~(election_closed = 0) THEN "Election is closed"
    ELSE IF ~(has_voted = 0) THEN "You have already voted"
    ELSE IF ~(candidate = 1 \/ candidate = 2)
        THEN "Invalid candidate ID (must be 1 or 2)"
    ELSE OK

\* Mutant: total_voters is incremented inside the candidate-A branch only.
cast_vote_writes_total_in_branch(candidate) ==
    [candidate_a_votes |-> IF candidate = 1 THEN candidate_a_votes + 1
                           ELSE candidate_a_votes,
     candidate_b_votes |-> IF candidate = 1 THEN candidate_b_votes
                           ELSE candidate_b_votes + 1,
     total_voters |-> IF candidate = 1 THEN total_voters + 1 ELSE total_voters,
     has_voted |-> 1,
     vote_timestamp |-> now]

\* Mutant: the vote timestamp is not stored.
cast_vote_writes_no_timestamp(candidate) ==
    [candidate_a_votes |-> IF candidate = 1 THEN candidate_a_votes + 1
                           ELSE candidate_a_votes,
     candidate_b_votes |-> IF candidate = 1 THEN candidate_b_votes
                           ELSE candidate_b_votes + 1,
     total_voters |-> total_voters + 1,
     has_voted |-> 1,
     vote_timestamp |-> vote_timestamp]

\* The storage cast_vote writes once its asserts have passed.
cast_vote_writes(candidate) ==
    [candidate_a_votes |-> IF candidate = 1 THEN candidate_a_votes + 1
                           ELSE candidate_a_votes,
     candidate_b_votes |-> IF candidate = 1 THEN candidate_b_votes
                           ELSE candidate_b_votes + 1,
     total_voters |-> total_voters + 1,
     has_voted |-> 1,
     vote_timestamp |-> now]

cast_vote(sender, candidate_id) ==
    LET r == cast_vote_asserts(sender, candidate_id)
        w == cast_vote_writes(candidate_id)
    IN /\ (r = OK => total_voters < MaxVotes)
       /\ last' = Call("cast_vote", sender, r)
       /\ returned' = IF r = OK THEN "Vote recorded successfully" ELSE Nothing
       /\ IF r = OK
          THEN /\ candidate_a_votes' = w.candidate_a_votes
               /\ candidate_b_votes' = w.candidate_b_votes
               /\ total_voters' = w.total_voters
               /\ has_voted' = w.has_voted
               /\ vote_timestamp' = w.vote_timestamp
               /\ voted' = voted \cup {sender}
               /\ UNCHANGED <<election_start, election_end, ai_report_hash,
                              election_closed, now>>
          ELSE UNCHANGED <<storage, now, voted>>

\* --------------------------------------------------------- close_election
\* Mutant: the end-of-election assert written with >=.
close_election_asserts_ge(sender, ai_hash) ==
    IF sender # creator_address THEN "Only creator can close election"
    ELSE IF ~(now >= election_end) THEN "Election has not ended yet"
    ELSE OK

\* Mutant: the creator assert is missing.
close_election_asserts_no_auth(sender, ai_hash) ==
    IF ~(now > election_end) THEN "Election has not ended yet"
    ELSE OK

\* Mutant: the end-of-election assert written with <.
close_election_asserts_lt(sender, ai_hash) ==
    IF sender # creator_address THEN "Only creator can close election"
    ELSE IF ~(now < election_end) THEN "Election has not ended yet"
    ELSE OK

\* The asserts of close_election, in order: the first that fails, else OK.
\* The source checks nothing about ai_hash (contract.py:169-171 is a comment).
close_election_asserts(sender, ai_hash) ==
    IF sender # creator_address THEN "Only creator can close election"
    ELSE IF ~(now > election_end) THEN "Election has not ended yet"
    ELSE OK

\* Mutant: the hash is stored but the election is not marked closed.
close_election_writes_no_flag(ai_hash) ==
    [ai_report_hash |-> ai_hash, election_closed |-> election_closed]

\* Mutant: the closed flag is toggled instead of set.
close_election_writes_toggle(ai_hash) ==
    [ai_report_hash |-> ai_hash, election_closed |-> 1 - election_closed]

\* The storage close_election writes once its asserts have passed.
close_election_writes(ai_hash) ==
    [ai_report_hash |-> ai_hash, election_closed |-> 1]

close_election(sender, ai_hash) ==
    LET r == close_election_asserts(sender, ai_hash)
        w == close_election_writes(ai_hash)
    IN /\ last' = Call("close_election", sender, r)
       /\ returned' = IF r = OK
                      THEN "Election closed successfully with AI report hash stored"
                      ELSE Nothing
       /\ IF r = OK
          THEN /\ ai_report_hash' = w.ai_report_hash
               /\ election_closed' = w.election_closed
               /\ UNCHANGED <<candidate_a_votes, candidate_b_votes, election_start,
                              election_end, total_voters, has_voted,
                              vote_timestamp, now, voted>>
          ELSE UNCHANGED <<storage, now, voted>>

\* ----------------------------------------------------------- opt_in_voter
\* Mutant: opt-in initialises the tallies as well, as __init__ does.
opt_in_voter_clears_tallies(sender) ==
    /\ last' = Call("opt_in_voter", sender, OK)
    /\ returned' = "Voter opted in successfully"
    /\ has_voted' = 0
    /\ vote_timestamp' = 0
    /\ candidate_a_votes' = 0
    /\ candidate_b_votes' = 0
    /\ total_voters' = 0
    /\ UNCHANGED <<election_start, election_end, ai_report_hash, election_closed,
                   now, voted>>

opt_in_voter(sender) ==
    /\ last' = Call("opt_in_voter", sender, OK)
    /\ returned' = "Voter opted in successfully"
    /\ has_voted' = 0
    /\ vote_timestamp' = 0
    /\ UNCHANGED <<candidate_a_votes, candidate_b_votes, election_start,
                   election_end, total_voters, ai_report_hash, election_closed,
                   now, voted>>

\* ---------------------------------------------------------------- queries
\* Mutant: election_start and election_end are returned in each other's place.
get_results_swapped ==
    <<candidate_a_votes, candidate_b_votes, total_voters, election_end,
      election_start, election_closed, ai_report_hash>>

\* What get_results returns.
get_results ==
    <<candidate_a_votes, candidate_b_votes, total_voters, election_start,
      election_end, election_closed, ai_report_hash>>

\* What get_voter_status returns to the account that calls it.
get_voter_status(sender) == <<has_voted, vote_timestamp>>

\* The read-only calls: any sender, no assert, no write.
call_get_results(sender) ==
    /\ last' = Call("get_results", sender, OK)
    /\ returned' = get_results
    /\ UNCHANGED <<storage, now, voted>>

call_get_voter_status(sender) ==
    /\ last' = Call("get_voter_status", sender, OK)
    /\ returned' = get_voter_status(sender)
    /\ UNCHANGED <<storage, now, voted>>

\* ------------------------------------------------------------ ledger time
\* Mutant: the next block may carry an earlier timestamp.
Tick_may_decrease ==
    /\ \E n \in {now - 1, now + 1} \cap (FirstTimestamp..MaxTime) : now' = n
    /\ last' = NoCall
    /\ returned' = Nothing
    /\ UNCHANGED <<storage, voted, opt_history>>

\* The next block carries a later timestamp.
Tick ==
    /\ now < MaxTime
    /\ now' = now + 1
    /\ last' = NoCall
    /\ returned' = Nothing
    /\ UNCHANGED <<storage, voted, opt_history>>

\* ------------------------------------------------------------------- spec
\* Spec keeps no history of opt-ins.
NoHistory == UNCHANGED opt_history

CreateElection ==
    \E a \in Accounts, s \in Times, e \in Times :
        create_election(a, s, e) /\ NoHistory
CastVote == \E a \in Accounts, c \in CandidateIds : cast_vote(a, c) /\ NoHistory
CloseElection == \E a \in Accounts, h \in Hashes : close_election(a, h) /\ NoHistory
OptInVoter == \E a \in Accounts : opt_in_voter(a) /\ NoHistory
GetResults == \E a \in Accounts : call_get_results(a) /\ NoHistory
GetVoterStatus == \E a \in Accounts : call_get_voter_status(a) /\ NoHistory

Next ==
    \/ CreateElection
    \/ CastVote
    \/ CloseElection
    \/ OptInVoter
    \/ GetResults
    \/ GetVoterStatus
    \/ Tick

Spec == Init /\ [][Next]_vars

\* ------------------------------------------------- spec with opt-in history
\* The same contract with the history of opt-ins recorded.  The arguments
\* that have no bearing on a voter's record are drawn from fewer values:
\* elections start at the first timestamp and the report hash is one
\* SHA256-sized value.
HistStarts == {FirstTimestamp}
HistHashes == {Bytes(32, 97)}

\* The history after the call recorded in last'.
RecordHistory ==
    /\ opted_in' = IF last'.op = "opt_in_voter"
                   THEN opted_in \cup {last'.sender}
                   ELSE opted_in
    /\ voted_since_opt_in' =
          CASE last'.op = "opt_in_voter" -> voted_since_opt_in \ {last'.sender}
            [] last'.op = "cast_vote" /\ last'.ok ->
                   voted_since_opt_in \cup {last'.sender}
            [] OTHER -> voted_since_opt_in

HistCreateElection ==
    \E a \in Accounts, s \in HistStarts, e \in Times :
        create_election(a, s, e) /\ RecordHistory
HistCastVote ==
    \E a \in Accounts, c \in CandidateIds : cast_vote(a, c) /\ RecordHistory
HistCloseElection ==
    \E a \in Accounts, h \in HistHashes : close_election(a, h) /\ RecordHistory
HistOptInVoter == \E a \in Accounts : opt_in_voter(a) /\ RecordHistory
HistGetResults == \E a \in Accounts : call_get_results(a) /\ RecordHistory
HistGetVoterStatus ==
    \E a \in Accounts : call_get_voter_status(a) /\ RecordHistory

HistNext ==
    \/ HistCreateElection
    \/ HistCastVote
    \/ HistCloseElection
    \/ HistOptInVoter
    \/ HistGetResults
    \/ HistGetVoterStatus
    \/ Tick

SpecHist == Init /\ [][HistNext]_vars

\* ------------------------------------------- spec of one election's closure
\* The contract with an administrator who creates one election and then keeps
\* submitting close_election with one SHA256-sized hash, on a ledger whose
\* time keeps advancing.  Every other account calls as under Spec.
LiveHash == Bytes(32, 97)

\* An election has been created: the window is no longer the initial one.
Created == <<election_start, election_end>> # <<0, 0>>

LiveCreateElection ==
    \E a \in Accounts, s \in Times, e \in Times :
        /\ a = creator_address => ~Created
        /\ create_election(a, s, e)
        /\ NoHistory
LiveCloseElection ==
    \E a \in Accounts, h \in Hashes :
        /\ a = creator_address => h = LiveHash
        /\ close_election(a, h)
        /\ NoHistory
AdminClose == close_election(creator_address, LiveHash) /\ NoHistory

LiveNext ==
    \/ LiveCreateElection
    \/ CastVote
    \/ LiveCloseElection
    \/ OptInVoter
    \/ GetResults
    \/ GetVoterStatus
    \/ Tick

SpecLive ==
    /\ Init
    /\ [][LiveNext]_vars
    /\ WF_vars(Tick)
    /\ WF_vars(AdminClose)

\* ================================================================ claims
\* The length a SHA256 report hash must have (contract.py:154, :169).
HashLen == 32

tallies == <<candidate_a_votes, candidate_b_votes, total_voters>>

\* C1: in every reachable state total_voters equals
\* candidate_a_votes + candidate_b_votes.
C1_TotalIsSum == total_voters = candidate_a_votes + candidate_b_votes

\* Both candidates have an accepted vote.
C1_Witness ==
    /\ candidate_a_votes = 1
    /\ candidate_b_votes = 1
    /\ total_voters = 2

\* C2: once an account's cast_vote has been accepted, every later cast_vote by
\* that account before the next accepted create_election is rejected and leaves
\* the tallies unchanged, with "You have already voted" while the election is
\* still open.
C2_VoteOncePerElection ==
    [][(last'.op = "cast_vote" /\ last'.sender \in voted) =>
          /\ ~last'.ok
          /\ UNCHANGED tallies
          /\ (election_start <= now /\ now <= election_end /\ election_closed = 0
                => last'.reason = "You have already voted")]_vars

\* C3: a call made by account x never changes the (has_voted, vote_timestamp)
\* that another account y reads as its own record.
C3_RecordPerAccount ==
    [][\A y \in Accounts :
          (last'.op # "none" /\ last'.sender # y)
              => get_voter_status(y)' = get_voter_status(y)]_vars

\* C4: a cast_vote before election_start, after election_end, on a closed
\* election or for a candidate other than 1 and 2 is rejected with no state
\* change; an accepted one happens with election_start <= now <= election_end
\* and election_closed = 0.
C4_VoteOnlyInWindow ==
    [][last'.op = "cast_vote" =>
          \A c \in CandidateIds :
              cast_vote(last'.sender, c) =>
                  /\ (now < election_start \/ now > election_end
                          \/ election_closed = 1 \/ c \notin {1, 2})
                        => (~last'.ok /\ UNCHANGED <<storage, voted>>)
                  /\ last'.ok => /\ election_start <= now
                                 /\ now <= election_end
                                 /\ election_closed = 0
                                 /\ c \in {1, 2}]_vars

\* A vote submitted after the end of an election that has votes was rejected.
C4_Witness ==
    /\ last.op = "cast_vote"
    /\ last.reason = "Election has ended"
    /\ election_closed = 0
    /\ total_voters > 0

\* C5: an accepted cast_vote(c) adds 1 to candidate_a_votes when c = 1 and to
\* candidate_b_votes otherwise, never both, adds 1 to total_voters, makes the
\* caller read has_voted = 1 and vote_timestamp = now, and leaves
\* election_start, election_end, election_closed and ai_report_hash unchanged.
C5_VoteEffect ==
    [][(last'.op = "cast_vote" /\ last'.ok) =>
          \A c \in CandidateIds :
              cast_vote(last'.sender, c) =>
                  /\ candidate_a_votes' = candidate_a_votes + (IF c = 1 THEN 1 ELSE 0)
                  /\ candidate_b_votes' = candidate_b_votes + (IF c = 1 THEN 0 ELSE 1)
                  /\ total_voters' = total_voters + 1
                  /\ get_voter_status(last'.sender)' = <<1, now>>
                  /\ UNCHANGED <<election_start, election_end, election_closed,
                                 ai_report_hash>>]_vars

\* A vote for candidate B accepted at a ledger time after the first.
C5_Witness ==
    /\ last.op = "cast_vote"
    /\ last.ok
    /\ candidate_b_votes = 1
    /\ vote_timestamp = now
    /\ now > FirstTimestamp

\* C6: after an accepted create_election(s, e), whatever the state before,
\* election_start = s, election_end = e, the three tallies are 0,
\* election_closed = 0 and ai_report_hash is empty.
C6_CreateEffect ==
    [][(last'.op = "create_election" /\ last'.ok) =>
          \A s \in Times, e \in Times :
              create_election(last'.sender, s, e) =>
                  /\ election_start' = s
                  /\ election_end' = e
                  /\ candidate_a_votes' = 0
                  /\ candidate_b_votes' = 0
                  /\ total_voters' = 0
                  /\ election_closed' = 0
                  /\ ai_report_hash' = <<>>]_vars

\* An election was created over one that had an accepted vote.
C6_Witness ==
    /\ last.op = "create_election"
    /\ last.ok
    /\ has_voted = 1
    /\ election_start > 0

C8_CloseRejects ==
    [][last'.op = "close_election" =>
          \A h \in Hashes :
              ((last'.sender # creator_address \/ now <= election_end)
                  /\ close_election(last'.sender, h))
                  => (~last'.ok /\ UNCHANGED <<election_closed, ai_report_hash>>)]_vars

\* The creator's close_election at now = election_end was rejected.
C8_Witness ==
    /\ last.op = "close_election"
    /\ last.sender = creator_address
    /\ last.reason = "Election has not ended yet"
    /\ now = election_end
    /\ election_start < election_end

\* C9: close_election rejects, with no state change, every ai_hash whose length
\* is not 32 bytes.
C9_CloseRejectsBadHash ==
    [][last'.op = "close_election" =>
          \A h \in Hashes :
              (Len(h) # HashLen /\ close_election(last'.sender, h))
                  => (~last'.ok /\ UNCHANGED <<storage, voted>>)]_vars

\* C10: ai_report_hash is always empty or 32 bytes long, is empty after an
\* accepted create_election, and becomes empty again only by an accepted
\* create_election.
C10_HashEmptyOr32 ==
    [][/\ Len(ai_report_hash') \in {0, HashLen}
       /\ (last'.op = "create_election" /\ last'.ok) => ai_report_hash' = <<>>
       /\ (ai_report_hash # <<>> /\ ai_report_hash' = <<>>)
             => (last'.op = "create_election" /\ last'.ok)]_vars

\* An accepted create_election is the step being taken.
CreateAccepted == last'.op = "create_election" /\ last'.ok
\* An accepted close_election is the step being taken.
CloseAccepted == last'.op = "close_election" /\ last'.ok

\* C11: once a close_election has been accepted, no later call before the next
\* accepted create_election changes ai_report_hash.
C11_CloseOnce ==
    [][(election_closed = 1 /\ ~CreateAccepted)
          => ai_report_hash' = ai_report_hash]_vars

\* C12: an accepted close_election(h) is the creator's, at now > election_end,
\* sets election_closed = 1 and ai_report_hash = h, and leaves the tallies,
\* election_start, election_end and the voter record unchanged.
C12_CloseEffect ==
    [][CloseAccepted =>
          \A h \in Hashes :
              close_election(last'.sender, h) =>
                  /\ last'.sender = creator_address
                  /\ now > election_end
                  /\ election_closed' = 1
                  /\ ai_report_hash' = h
                  /\ UNCHANGED <<candidate_a_votes, candidate_b_votes, total_voters,
                                 election_start, election_end, has_voted,
                                 vote_timestamp>>]_vars

\* An election with an accepted vote was closed with a 32-byte hash.
C12_Witness ==
    /\ last.op = "close_election"
    /\ last.ok
    /\ ai_report_hash = Bytes(32, 97)
    /\ total_voters > 0
    /\ election_start > 0

\* C13: election_closed starts 0, goes from 0 to 1 only in an accepted
\* close_election and from 1 to 0 only in an accepted create_election; every
\* other step leaves it as it is.
C13_ClosedSticky ==
    /\ election_closed = 0
    /\ [][election_closed' # election_closed =>
             IF election_closed = 0 THEN CloseAccepted ELSE CreateAccepted]_vars

\* An opt_in_voter call on a closed election left it closed.
C13_Witness ==
    /\ election_closed = 1
    /\ last.op = "opt_in_voter"
    /\ election_start > 0
    /\ total_voters > 0

\* C14: for every account, has_voted becomes 1 only by that account's own
\* accepted cast_vote and, once 1, is never set back to 0 by any later call
\* (opt_in_voter included); vote_timestamp is 0 until the vote, is set to the
\* ledger time of the accepted vote and is never changed afterwards.
C14_RecordSetOnce ==
    [][\A a \in Accounts :
          LET before == get_voter_status(a)
              after == get_voter_status(a)'
          IN  /\ before[1] = 1 => after = before
              /\ (before[1] = 0 /\ after[1] = 0) => after[2] = 0
              /\ (before[1] = 0 /\ after[1] = 1) =>
                     /\ last' = Call("cast_vote", a, OK)
                     /\ after[2] = now']_vars

\* C15: a call by an account other than the creator leaves election_start,
\* election_end, election_closed and ai_report_hash unchanged, and changes the
\* tallies only as an accepted cast_vote.
C15_OnlyAdminConfigures ==
    [][(last'.op # "none" /\ last'.sender # creator_address) =>
          /\ UNCHANGED <<election_start, election_end, election_closed,
                         ai_report_hash>>
          /\ tallies' # tallies => (last'.op = "cast_vote" /\ last'.ok)]_vars

\* A close_election by another account after the end of a created election
\* was rejected.
C15_Witness ==
    /\ last.op = "close_election"
    /\ last.sender = "v1"
    /\ ~last.ok
    /\ now > election_end
    /\ election_start > 0

\* C16: candidate_a_votes and candidate_b_votes decrease (and so go back to 0)
\* only in an accepted create_election.
C16_TalliesMonotone ==
    [][(candidate_a_votes' < candidate_a_votes
            \/ candidate_b_votes' < candidate_b_votes) => CreateAccepted]_vars

\* An accepted create_election has reset the tallies of an election that had
\* an accepted vote.
C16_Witness ==
    /\ last.op = "create_election"
    /\ last.ok
    /\ total_voters = 0
    /\ vote_timestamp > 0
    /\ election_end = MaxTime

\* The read-only methods.
Queries == {"get_results", "get_voter_status"}

\* C17: get_results and get_voter_status can be called by every account in
\* every state, are never rejected and change no storage; get_results returns
\* the current (candidate_a_votes, candidate_b_votes, total_voters,
\* election_start, election_end, election_closed, ai_report_hash), and a
\* query that directly follows a get_results leaves its value standing for an
\* identical second get_results.
C17_QueriesPure ==
    /\ [](\A a \in Accounts :
            ENABLED call_get_results(a) /\ ENABLED call_get_voter_status(a))
    /\ [][last'.op \in Queries =>
             /\ last'.ok
             /\ UNCHANGED <<storage, voted>>
             /\ last'.op = "get_results" =>
                   returned' = <<candidate_a_votes', candidate_b_votes',
                                 total_voters', election_start', election_end',
                                 election_closed', ai_report_hash'>>
             /\ (last.op = "get_results" /\ last'.op = "get_results")
                   => returned' = returned]_vars

\* An account other than the creator read the results of a closed election
\* in which a vote was accepted.
C17_Witness ==
    /\ last.op = "get_results"
    /\ last.sender = "v2"
    /\ election_closed = 1
    /\ election_start > 0
    /\ returned[3] = 1
    /\ returned[7] = Bytes(32, 97)

\* An account that has never called opt_in_voter and never had a cast_vote
\* accepted: with no opt-in of its own, its accepted votes all still stand.
NeverOptedInNorVoted(a) == a \notin opted_in /\ a \notin voted_since_opt_in

\* C18: get_voter_status returns (0, 0) to an account that has never opted in
\* and never voted, in every reachable state, whatever the other accounts
\* have done.
C18_NoRecordReadsZero ==
    /\ \A a \in Accounts :
          NeverOptedInNorVoted(a) => get_voter_status(a) = <<0, 0>>
    /\ (last.op = "get_voter_status" /\ NeverOptedInNorVoted(last.sender))
          => returned = <<0, 0>>

\* C19: a cast_vote by an account that has never called opt_in_voter is
\* never accepted.
C19_OptInBeforeVote ==
    (last.op = "cast_vote" /\ last.ok) => last.sender \in opted_in

\* C20: total_voters is the number of distinct accounts whose cast_vote was
\* accepted since the last accepted create_election.
C20_TotalCountsAccounts == total_voters = Cardinality(voted)

\* The preconditions of cast_vote in the order the claim fixes, each with
\* its reject reason: <<violated, reason>>.
VoteChecks(sender, candidate) ==
    << <<now < election_start, "Election has not started yet">>,
       <<now > election_end, "Election has ended">>,
       <<election_closed = 1, "Election is closed">>,
       <<get_voter_status(sender)[1] = 1, "You have already voted">>,
       <<candidate \notin {1, 2}, "Invalid candidate ID (must be 1 or 2)">> >>

\* The preconditions of create_election in the order the claim fixes.
CreateChecks(sender, start, end) ==
    << <<sender # creator_address, "Only creator can create election">>,
       <<start >= end, "Start time must be before end time">>,
       <<end <= now, "End time must be in the future">> >>

\* The reason of the first violated check, OK when none is violated.
FirstViolated(checks) ==
    LET bad == {i \in DOMAIN checks : checks[i][1]}
    IN IF bad = {} THEN OK
       ELSE checks[CHOOSE i \in bad : \A j \in bad : i <= j][2]

\* C21: a cast_vote is rejected with the reason of the first violated
\* precondition in the order not started, ended, closed, already voted,
\* invalid candidate; a create_election with the first in the order only
\* creator, start before end, end in the future.  In every reachable state
\* that is the outcome of every possible call, and the reason a call reports
\* is the outcome of its asserts for some arguments.
C21_FirstViolatedReason ==
    /\ [](/\ \A a \in Accounts, c \in CandidateIds :
                cast_vote_asserts(a, c) = FirstViolated(VoteChecks(a, c))
          /\ \A a \in Accounts, s \in Times, e \in Times :
                create_election_asserts(a, s, e)
                    = FirstViolated(CreateChecks(a, s, e)))
    /\ [][/\ last'.op = "cast_vote" =>
                 \E c \in CandidateIds :
                     last'.reason = cast_vote_asserts(last'.sender, c)
           /\ last'.op = "create_election" =>
                 \E s \in Times, e \in Times :
                     last'.reason = create_election_asserts(last'.sender, s, e)]_vars

\* A vote was rejected with "ended" while the election was also closed and
\* the voter record also read "voted".
C21_Witness ==
    /\ last.op = "cast_vote"
    /\ last.reason = "Election has ended"
    /\ election_closed = 1
    /\ has_voted = 1

C23_NoSecondVote ==
    [][(/\ last'.op = "cast_vote"
        /\ last'.sender \in voted
        /\ last'.sender \in voted_since_opt_in)
           => /\ ~last'.ok
              /\ now <= election_end
                    => last'.reason = "You have already voted"]_vars

\* C24: create_election does not reset voter records: an account whose vote
\* was accepted in an earlier election and that has not called opt_in_voter
\* since reads has_voted = 1 after an accepted create_election, and its
\* cast_vote inside the new election's window is rejected with
\* "You have already voted".
C24_CreateKeepsRecords ==
    [][/\ CreateAccepted =>
             \A a \in voted_since_opt_in' : (get_voter_status(a)[1])' = 1
       /\ (/\ last'.op = "cast_vote"
           /\ last'.sender \in voted_since_opt_in
           /\ last'.sender \notin voted
           /\ election_start <= now /\ now <= election_end
           /\ election_closed = 0)
              => last'.reason = "You have already voted"]_vars

\* The derived states of an election.
Pending == now < election_start
Open == election_start <= now /\ now <= election_end /\ election_closed = 0
EndedUnclosed == now > election_end /\ election_closed = 0
Closed == election_closed = 1

\* C25: a closed election has now > election_end; so no cast_vote is rejected
\* with "Election is closed", and no two of Pending, Open, Ended-Unclosed and
\* Closed hold together.
C25_ClosedMeansEnded ==
    /\ election_closed = 1 => now > election_end
    /\ last.reason # "Election is closed"
    /\ LET holding == <<Pending, Open, EndedUnclosed, Closed>>
       IN Cardinality({i \in 1..4 : holding[i]}) <= 1

\* A vote was submitted against a closed election of a created window, and
\* was rejected.
C25_Witness ==
    /\ Closed
    /\ election_start > 0
    /\ last.op = "cast_vote"
    /\ ~last.ok

\* C26: close_election does not succeed before an election was created: a
\* closed flag or a stored report hash implies an accepted create_election,
\* that is a window other than the initial <<0, 0>>.
C26_NoCloseBeforeCreate ==
    (election_closed = 1 \/ ai_report_hash # <<>>)
        => <<election_start, election_end>> # <<0, 0>>

\* C27: every created election is eventually closed with the hash the
\* administrator keeps submitting, whatever votes, opt-ins and rejected calls
\* occur meanwhile (an election ending at MaxTime is left out: the modelled
\* ledger time stops there); and once now > election_end the tallies change
\* no more unless a new election is created.
C27_EventuallyClosed ==
    /\ (Created /\ election_end < MaxTime)
           ~> (election_closed = 1 /\ ai_report_hash = LiveHash)
    /\ [][(now > election_end /\ ~CreateAccepted) => tallies' = tallies]_vars

\* A created election with accepted votes is closed with the administrator's
\* hash, and an opt-in followed the closure.
C27_Witness ==
    /\ Created
    /\ total_voters > 0
    /\ election_closed = 1
    /\ ai_report_hash = LiveHash
    /\ last.op = "opt_in_voter"

====
